---- MODULE Spec2Model ----
(***************************************************************************)
(* Model of the BPD-002 register bank (bpd_core/registers.py) and of the  *)
(* unit conversion helpers (bpd_core/validation.py).                      *)
(*                                                                         *)
(* A Python value is modelled as a record [t, v]:                          *)
(*   t = "int"    the integer v                                            *)
(*   t = "bool"   False (v = 0) or True (v = 1); bool is a subclass of    *)
(*                int, so it compares like the integer v                   *)
(*   t = "float"  the non-integer number v + 0.5                           *)
(*   t = "str"    a string: any ordering comparison with an integer        *)
(*                raises TypeError                                         *)
(***************************************************************************)
EXTENDS Integers, Sequences, FiniteSets, TLC

VARIABLES
    regs,      \* the private attributes of one BasicProbeDriverRegisters
    snaps,     \* the dicts returned by to_dict so far, oldest first
    lastOp,    \* the operation of the last step: [op, field, value]
    result,    \* its outcome: "ok" or the exception class raised
    nops,      \* number of operations performed
    pre,       \* regs and snaps as they were before the last operation
    convFn,    \* conversion helper called last ("none" before any call)
    convArg,   \* its first argument
    convFreq,  \* clock_freq_mhz
    convOut,   \* its return value
    drv,       \* the attributes of one DS1120ADriver
    drvOp,     \* the driver method called last: [op, arg]
    drvResult, \* its outcome: "ok" or the exception class raised
    drvPre,    \* drv as it was before that call
    drvNow,    \* time.time(), one unit per call
    drvStatus, \* the dict returned by the last get_status call
    drivers,   \* ProbeRegistry._drivers: a dict from names to driver classes
    regyOp,    \* the registry method called last: [op, name, cls]
    regyOut,   \* what it returned: a class, "None", or a list of names
    regyLog,   \* the register calls made since the last clear, in order
    regyOps,   \* number of registry calls made
    fsm,       \* the controller's runtime state (ControllerState)
    fsmRegs,   \* the registers the controller reads, durations in ticks
    fsmPre,    \* fsm as it was before the last tick
    fsmEv,     \* what happened last: "reset", "tick" or "write"
    fsmWrites  \* number of register writes made while the controller runs

regVars == <<regs, snaps, lastOp, result, nops, pre>>
convVars == <<convFn, convArg, convFreq, convOut>>
drvVars == <<drv, drvOp, drvResult, drvPre, drvNow, drvStatus>>
regyVars == <<drivers, regyOp, regyOut, regyLog, regyOps>>
fsmVars == <<fsm, fsmRegs, fsmPre, fsmEv, fsmWrites>>
vars == <<regs, snaps, lastOp, result, nops, pre, convFn, convArg, convFreq,
          convOut, drv, drvOp, drvResult, drvPre, drvNow, drvStatus,
          drivers, regyOp, regyOut, regyLog, regyOps,
          fsm, fsmRegs, fsmPre, fsmEv, fsmWrites>>

(***************************************************************************)
(* Bounds                                                                  *)
(***************************************************************************)
MaxOps == 2
MaxSnaps == 1
MaxConvArg == 1000
MaxDrvOps == 6
MaxRegyOps == 3
MaxFsmWrites == 1

(***************************************************************************)
(* Python values                                                           *)
(***************************************************************************)
PyInt(n) == [t |-> "int", v |-> n]
PyBool(b) == [t |-> "bool", v |-> IF b THEN 1 ELSE 0]
PyFloat(n) == [t |-> "float", v |-> n]
PyStr == [t |-> "str", v |-> 0]

Comparable(value) == value.t \in {"int", "bool", "float"}

\* variant: the lower bound is not tested
WithinUpperOnly(lo, value, hi) ==
    IF value.t = "float" THEN value.v < hi ELSE value.v <= hi

\* variant: both comparisons strict
WithinStrict(lo, value, hi) ==
    lo < value.v /\ value.v < hi

\* variant: the upper bound is not tested
WithinLowerOnly(lo, value, hi) == lo <= value.v

\* lo <= value <= hi for integers lo, hi (a float stands for v + 0.5)
Within(lo, value, hi) ==
    IF value.t = "float"
    THEN lo <= value.v /\ value.v < hi
    ELSE lo <= value.v /\ value.v <= hi

\* variant: isinstance(value, int), which also holds of a bool
isinstance_int(value) == value.t \in {"int", "bool"}

\* isinstance(value, bool)
isinstance_bool(value) == value.t = "bool"

(***************************************************************************)
(* The register bank                                                       *)
(***************************************************************************)
BoolFields ==
    {"auto_rearm_enable", "fault_clear", "monitor_enable",
     "monitor_expect_negative"}

IntFields ==
    {"trigger_wait_timeout", "trig_out_voltage", "trig_out_duration",
     "intensity_voltage", "intensity_duration", "cooldown_interval",
     "probe_monitor_feedback", "monitor_threshold_voltage",
     "monitor_window_start", "monitor_window_duration"}

AllFields == BoolFields \cup IntFields

\* variant: the defaults of the two durations exchanged
DefaultsDurationsSwapped ==
    [trigger_wait_timeout      |-> [t |-> "int", v |-> 2],
     auto_rearm_enable         |-> [t |-> "bool", v |-> 0],
     fault_clear               |-> [t |-> "bool", v |-> 0],
     trig_out_voltage          |-> [t |-> "int", v |-> 0],
     trig_out_duration         |-> [t |-> "int", v |-> 200],
     intensity_voltage         |-> [t |-> "int", v |-> 0],
     intensity_duration        |-> [t |-> "int", v |-> 100],
     cooldown_interval         |-> [t |-> "int", v |-> 10],
     probe_monitor_feedback    |-> [t |-> "int", v |-> 0],
     monitor_enable            |-> [t |-> "bool", v |-> 1],
     monitor_threshold_voltage |-> [t |-> "int", v |-> 0 - 200],
     monitor_expect_negative   |-> [t |-> "bool", v |-> 1],
     monitor_window_start      |-> [t |-> "int", v |-> 0],
     monitor_window_duration   |-> [t |-> "int", v |-> 5000]]

\* __init__: the value of every private attribute after construction
Defaults ==
    [trigger_wait_timeout      |-> PyInt(2),
     auto_rearm_enable         |-> PyBool(FALSE),
     fault_clear               |-> PyBool(FALSE),
     trig_out_voltage          |-> PyInt(0),
     trig_out_duration         |-> PyInt(100),
     intensity_voltage         |-> PyInt(0),
     intensity_duration        |-> PyInt(200),
     cooldown_interval         |-> PyInt(10),
     probe_monitor_feedback    |-> PyInt(0),
     monitor_enable            |-> PyBool(TRUE),
     monitor_threshold_voltage |-> PyInt(0 - 200),
     monitor_expect_negative   |-> PyBool(TRUE),
     monitor_window_start      |-> PyInt(0),
     monitor_window_duration   |-> PyInt(5000)]

\* the bounds tested by each integer setter: "if not lo <= value <= hi"
SetterBounds ==
    [trigger_wait_timeout      |-> <<0, 3600>>,
     trig_out_voltage          |-> <<0 - 5000, 5000>>,
     trig_out_duration         |-> <<20, 50000>>,
     intensity_voltage         |-> <<0 - 5000, 5000>>,
     intensity_duration        |-> <<20, 50000>>,
     cooldown_interval         |-> <<1, 500000>>,
     probe_monitor_feedback    |-> <<0 - 5000, 5000>>,
     monitor_threshold_voltage |-> <<0 - 5000, 5000>>,
     monitor_window_start      |-> <<0, 2000000000>>,
     monitor_window_duration   |-> <<100, 2000000000>>]

\* variant: every property has a setter
HasSetterAll(f) == TRUE

\* a property with a setter; probe_monitor_feedback has a getter only
HasSetter(f) == f # "probe_monitor_feedback"

\* body of an integer setter (and of _set_probe_monitor_feedback): the
\* chained comparison raises TypeError on a str, the test raises ValueError
IntSetterResult(f, value) ==
    IF ~Comparable(value) THEN "TypeError"
    ELSE IF ~Within(SetterBounds[f][1], value, SetterBounds[f][2])
         THEN "ValueError"
         ELSE "ok"

\* body of a boolean setter
BoolSetterResult(f, value) ==
    IF ~isinstance_bool(value) THEN "TypeError" ELSE "ok"

\* outcome of the assignment "regs.<f> = value"
SetattrResult(f, value) ==
    IF ~HasSetter(f) THEN "AttributeError"
    ELSE IF f \in BoolFields THEN BoolSetterResult(f, value)
    ELSE IntSetterResult(f, value)

\* variant: the monitor_window_start entry copies the duration
to_dict_miscopy(r) ==
    [f \in DOMAIN r |->
        IF f = "monitor_window_start" THEN r.monitor_window_duration ELSE r[f]]

\* the dict literal built by to_dict
to_dict(r) ==
    [trigger_wait_timeout      |-> r.trigger_wait_timeout,
     auto_rearm_enable         |-> r.auto_rearm_enable,
     fault_clear               |-> r.fault_clear,
     trig_out_voltage          |-> r.trig_out_voltage,
     trig_out_duration         |-> r.trig_out_duration,
     intensity_voltage         |-> r.intensity_voltage,
     intensity_duration        |-> r.intensity_duration,
     cooldown_interval         |-> r.cooldown_interval,
     probe_monitor_feedback    |-> r.probe_monitor_feedback,
     monitor_enable            |-> r.monitor_enable,
     monitor_threshold_voltage |-> r.monitor_threshold_voltage,
     monitor_expect_negative   |-> r.monitor_expect_negative,
     monitor_window_start      |-> r.monitor_window_start,
     monitor_window_duration   |-> r.monitor_window_duration]

(***************************************************************************)
(* Values a caller writes: for an integer register both bounds, the        *)
(* integers next to them, True, a non-integer inside every range and a     *)
(* string; for a boolean register both booleans, 0, 1 and a string.        *)
(***************************************************************************)
WriteValues(f) ==
    IF f \in BoolFields
    THEN {PyBool(TRUE), PyBool(FALSE), PyInt(0), PyInt(1), PyStr}
    ELSE {PyInt(SetterBounds[f][1] - 1), PyInt(SetterBounds[f][1]),
          PyInt(SetterBounds[f][2]), PyInt(SetterBounds[f][2] + 1),
          PyBool(TRUE), PyFloat(150), PyStr}

NoOp == [op |-> "init", field |-> "none", value |-> PyInt(0)]

(***************************************************************************)
(* Operations on the register bank                                         *)
(***************************************************************************)
\* regs.<f> = value through the public property
Write(f, value) ==
    /\ nops < MaxOps
    /\ lastOp' = [op |-> "write", field |-> f, value |-> value]
    /\ result' = SetattrResult(f, value)
    /\ regs' = IF SetattrResult(f, value) = "ok"
               THEN [regs EXCEPT ![f] = value]
               ELSE regs
    /\ nops' = nops + 1
    /\ pre' = [regs |-> regs, snaps |-> snaps]
    /\ UNCHANGED <<snaps, convVars, drvVars, regyVars, fsmVars>>

\* regs._set_probe_monitor_feedback(value), the hardware update path
SetProbeMonitorFeedback(value) ==
    /\ nops < MaxOps
    /\ lastOp' = [op |-> "hw_update", field |-> "probe_monitor_feedback",
                  value |-> value]
    /\ result' = IntSetterResult("probe_monitor_feedback", value)
    /\ regs' = IF IntSetterResult("probe_monitor_feedback", value) = "ok"
               THEN [regs EXCEPT !["probe_monitor_feedback"] = value]
               ELSE regs
    /\ nops' = nops + 1
    /\ pre' = [regs |-> regs, snaps |-> snaps]
    /\ UNCHANGED <<snaps, convVars, drvVars, regyVars, fsmVars>>

\* d = regs.to_dict()
ToDict ==
    /\ nops < MaxOps
    /\ Len(snaps) < MaxSnaps
    /\ lastOp' = [op |-> "to_dict", field |-> "none", value |-> PyInt(0)]
    /\ result' = "ok"
    /\ snaps' = Append(snaps, to_dict(regs))
    /\ nops' = nops + 1
    /\ pre' = [regs |-> regs, snaps |-> snaps]
    /\ UNCHANGED <<regs, convVars, drvVars, regyVars, fsmVars>>

\* d[f] = value on a dict returned earlier by to_dict
DictSetItem(i, f, value) ==
    /\ nops < MaxOps
    /\ i \in 1..Len(snaps)
    /\ lastOp' = [op |-> "dict_set", field |-> f, value |-> value]
    /\ result' = "ok"
    /\ snaps' = [snaps EXCEPT ![i] = [@ EXCEPT ![f] = value]]
    /\ nops' = nops + 1
    /\ pre' = [regs |-> regs, snaps |-> snaps]
    /\ UNCHANGED <<regs, convVars, drvVars, regyVars, fsmVars>>

(***************************************************************************)
(* DS1120ADriver.__init__ (ds1120a.py): the attributes after construction. *)
(* fired is the list of trigger commands issued so far, each with the      *)
(* voltage and pulse width it used; voltages are in millivolts.            *)
(***************************************************************************)
None == [set |-> FALSE, at |-> 0]
Some(t) == [set |-> TRUE, at |-> t]

DrvNew ==
    [armed             |-> FALSE,
     initialized       |-> FALSE,
     voltage_mv        |-> 0,
     pulse_width_ns    |-> 0,
     last_trigger_time |-> None,
     fired             |-> <<>>]

DrvNoOp == [op |-> "new", arg |-> 0]

RegStart ==
    /\ regs = Defaults
    /\ snaps = <<>>
    /\ lastOp = NoOp
    /\ result = "ok"
    /\ nops = 0
    /\ pre = [regs |-> Defaults, snaps |-> <<>>]

ConvStart ==
    /\ convFn = "none"
    /\ convArg = 0
    /\ convFreq = 125
    /\ convOut = 0

NoStatus ==
    [armed |-> FALSE, ready |-> FALSE, fault |-> FALSE, voltage_mv |-> 0,
     pulse_width_ns |-> 0, last_trigger_time |-> None]

DrvStart ==
    /\ drv = DrvNew
    /\ drvStatus = NoStatus
    /\ drvOp = DrvNoOp
    /\ drvResult = "ok"
    /\ drvPre = DrvNew
    /\ drvNow = 0

\* ProbeRegistry (registry.py): the class attribute _drivers starts empty
EmptyDict == [k \in {} |-> "None"]

RegyNoOp == [op |-> "new", name |-> <<>>, cls |-> "None"]

RegyStart ==
    /\ drivers = EmptyDict
    /\ regyOp = RegyNoOp
    /\ regyOut = [value |-> "None", names |-> {}]
    /\ regyLog = <<>>
    /\ regyOps = 0

\* Probe FSM Controller (spec.md sections 3 and 4.4): the state after reset
Samples == {0 - 250, 0}

NoSnapshot ==
    [trig_out_voltage          |-> 0,
     trig_out_duration         |-> 0,
     intensity_voltage         |-> 0,
     intensity_duration        |-> 0,
     cooldown_interval         |-> 0,
     monitor_enable            |-> FALSE,
     monitor_threshold_voltage |-> 0,
     monitor_expect_negative   |-> FALSE,
     monitor_window_start      |-> 0,
     monitor_window_duration   |-> 0]

FsmReset ==
    [state             |-> "IDLE",
     ticks             |-> 0,
     snap              |-> NoSnapshot,
     fault             |-> FALSE,
     cause             |-> "None",
     status            |-> "none",
     crossed           |-> FALSE,
     disarm_pending    |-> FALSE,
     fault_clear_prev  |-> FALSE,
     trig_ticks        |-> 0,
     int_ticks         |-> 0,
     ready_for_updates |-> TRUE]

\* a register configuration in ticks: pulses of 1 and 2 ticks, 2 ticks of
\* cooldown, a monitor window covering the cooldown
BaseRegs ==
    [trigger_wait_timeout      |-> 2,
     auto_rearm_enable         |-> FALSE,
     trig_out_voltage          |-> 3300,
     trig_out_duration         |-> 1,
     intensity_voltage         |-> 5000,
     intensity_duration        |-> 2,
     cooldown_interval         |-> 2,
     monitor_enable            |-> TRUE,
     monitor_threshold_voltage |-> 0 - 200,
     monitor_expect_negative   |-> TRUE,
     monitor_window_start      |-> 2,
     monitor_window_duration   |-> 2]

FsmConfigs ==
    {BaseRegs,
     [BaseRegs EXCEPT !.monitor_enable = FALSE],
     [BaseRegs EXCEPT !.monitor_enable = FALSE, !.auto_rearm_enable = TRUE],
     [BaseRegs EXCEPT !.monitor_expect_negative = FALSE,
                      !.monitor_threshold_voltage = 0 - 100,
                      !.trig_out_duration = 3,
                      !.trigger_wait_timeout = 3]}

FsmIntWrites ==
    [trig_out_duration         |-> {3},
     trig_out_voltage          |-> {1000},
     monitor_threshold_voltage |-> {0 - 300}]

FsmBoolWrites == {"auto_rearm_enable", "monitor_enable"}

FsmStart ==
    /\ fsm = FsmReset
    /\ fsmRegs = BaseRegs
    /\ fsmPre = FsmReset
    /\ fsmEv = "reset"
    /\ fsmWrites = 0

Init ==
    /\ RegStart
    /\ ConvStart
    /\ DrvStart
    /\ RegyStart
    /\ FsmStart

Next ==
    \/ \E f \in AllFields : \E value \in WriteValues(f) : Write(f, value)
    \/ \E value \in WriteValues("probe_monitor_feedback") :
           SetProbeMonitorFeedback(value)
    \/ ToDict
    \/ \E i \in 1..MaxSnaps : \E f \in AllFields :
           \E value \in WriteValues(f) : DictSetItem(i, f, value)

Spec == Init /\ [][Next]_vars

(***************************************************************************)
(* Unit conversion helpers (validation.py).                                *)
(*                                                                         *)
(* The helpers compute in IEEE double arithmetic.  For a clock frequency   *)
(* that divides 1000 (100, 125, 250 MHz) the period 1000.0/clock_freq_mhz  *)
(* is an integer-valued double and every quotient and product below is    *)
(* exact (all arguments are far below 2^53).                               *)
(*                                                                         *)
(* At 120 MHz the period is not representable: 1000.0/120.0 is the double  *)
(* 8.333333333333334 = (25*2^49 + 1) / (3*2^49), just above 25/3.  For     *)
(* a >= 0 the real quotient a/period is 3a/25 - 3a/(25*(25*2^49 + 1)).     *)
(*  - If 25 does not divide a, its fractional part is at least 1/25 and    *)
(*    rounding to double does not reach an integer: int() gives 3a \div 25.*)
(*  - If a = 25m, m > 0, the quotient is k - k/(25*2^49 + 1) with k = 3m   *)
(*    (never a power of two).  With P the largest power of two <= k, the   *)
(*    doubles next to k from below are P*2^-52 apart, so the quotient      *)
(*    rounds to k when k/(25*2^49 + 1) < P*2^-53, i.e. 16k < 25P, and to   *)
(*    the double below k otherwise (16k = 25P is impossible, k being a     *)
(*    multiple of 3): int() then gives k - 1.                              *)
(* The product cycles*period is 25c/3 + c/(3*2^49): its rounding never     *)
(* crosses an integer downwards, so int() gives the integer part of 25c/3. *)
(***************************************************************************)
ClockFreqs == {100, 120, 125, 250}

\* int(x) of a quotient a / b, b > 0: truncation toward zero
TruncDiv(a, b) == IF a >= 0 THEN a \div b ELSE 0 - ((0 - a) \div b)

\* clock_period_ns = 1000.0 / clock_freq_mhz, for a frequency dividing 1000
clock_period_ns(clock_freq_mhz) == 1000 \div clock_freq_mhz

\* 1000.0 / clock_freq_mhz is exactly representable
PeriodExact(clock_freq_mhz) == 1000 % clock_freq_mhz = 0

RECURSIVE Pow2Below(_, _)
\* the largest power of two <= k, searched upward from the power of two p
Pow2Below(k, p) == IF 2 * p > k THEN p ELSE Pow2Below(k, 2 * p)

\* 16k > 25P, for P the largest power of two <= k
RoundsBelow(k) ==
    LET P == Pow2Below(k, 1)
    IN  IF P >= 16 THEN k - P > 9 * (P \div 16) ELSE 16 * k > 25 * P

\* int(a / clock_period_ns) for a >= 0, as the double division computes it
IntOfQuotient(a, clock_freq_mhz) ==
    IF PeriodExact(clock_freq_mhz)
    THEN a \div clock_period_ns(clock_freq_mhz)
    ELSE LET k == 3 * (a \div 25) + (3 * (a % 25)) \div 25
         IN  IF a > 0 /\ a % 25 = 0 /\ RoundsBelow(k) THEN k - 1 ELSE k

\* variant: divides by the clock frequency instead of the clock period
ns_to_cycles_by_freq(nanoseconds, clock_freq_mhz) ==
    TruncDiv(nanoseconds, clock_freq_mhz)

\* variant: rounds the quotient up instead of truncating it
ns_to_cycles_ceil(nanoseconds, clock_freq_mhz) ==
    0 - ((0 - nanoseconds) \div clock_period_ns(clock_freq_mhz))

\* int(nanoseconds / clock_period_ns)
ns_to_cycles(nanoseconds, clock_freq_mhz) ==
    IF nanoseconds >= 0
    THEN IntOfQuotient(nanoseconds, clock_freq_mhz)
    ELSE 0 - IntOfQuotient(0 - nanoseconds, clock_freq_mhz)

\* int(cycles * clock_period_ns)
cycles_to_ns(cycles, clock_freq_mhz) ==
    IF PeriodExact(clock_freq_mhz)
    THEN cycles * clock_period_ns(clock_freq_mhz)
    ELSE TruncDiv(25 * cycles, 3)

\* ns_to_cycles(microseconds * 1000, clock_freq_mhz)
us_to_cycles(microseconds, clock_freq_mhz) ==
    ns_to_cycles(microseconds * 1000, clock_freq_mhz)

\* ns_to_cycles(seconds * 1_000_000_000, clock_freq_mhz)
s_to_cycles(seconds, clock_freq_mhz) ==
    ns_to_cycles(seconds * 1000000000, clock_freq_mhz)

\* seconds whose nanosecond count the model checker's integers can hold
SecondsArgs == (0 - 2)..2

CallNsToCycles ==
    /\ convFn' = "ns_to_cycles"
    /\ convOut' = ns_to_cycles(convArg, convFreq)
    /\ UNCHANGED <<convArg, convFreq, regVars, drvVars, regyVars, fsmVars>>

CallCyclesToNs ==
    /\ convFn' = "cycles_to_ns"
    /\ convOut' = cycles_to_ns(convArg, convFreq)
    /\ UNCHANGED <<convArg, convFreq, regVars, drvVars, regyVars, fsmVars>>

\* cycles_to_ns(ns_to_cycles(n)): a caller converts to ticks and back
CallRoundTrip ==
    /\ convFn' = "round_trip"
    /\ convOut' = cycles_to_ns(ns_to_cycles(convArg, convFreq), convFreq)
    /\ UNCHANGED <<convArg, convFreq, regVars, drvVars, regyVars, fsmVars>>

CallUsToCycles ==
    /\ convFn' = "us_to_cycles"
    /\ convOut' = us_to_cycles(convArg, convFreq)
    /\ UNCHANGED <<convArg, convFreq, regVars, drvVars, regyVars, fsmVars>>

CallSToCycles ==
    /\ convArg \in SecondsArgs
    /\ convFn' = "s_to_cycles"
    /\ convOut' = s_to_cycles(convArg, convFreq)
    /\ UNCHANGED <<convArg, convFreq, regVars, drvVars, regyVars, fsmVars>>

InitConv ==
    /\ RegStart
    /\ DrvStart
    /\ RegyStart
    /\ FsmStart
    /\ convFn = "none"
    /\ convArg \in (0 - MaxConvArg)..MaxConvArg
    /\ convFreq \in ClockFreqs
    /\ convOut = 0

NextConv ==
    \/ CallNsToCycles
    \/ CallCyclesToNs
    \/ CallRoundTrip
    \/ CallUsToCycles
    \/ CallSToCycles

SpecConv == InitConv /\ [][NextConv]_vars

(***************************************************************************)
(* DS1120ADriver (bpd_drivers/ds1120a.py).  Voltages are held in           *)
(* millivolts so that 3.3 V is the integer 3300.  Each method is an        *)
(* operator from the attributes d to the pair of its outcome and the       *)
(* attributes it leaves behind.                                            *)
(***************************************************************************)
\* the digital glitch port's voltage range, and the capabilities built on it
voltage_min_mv == 0
voltage_max_mv == 3300
min_pulse_width_ns == 10
max_pulse_width_ns == 10000
InitialPulseWidth == 100

VoltageArgs == {0 - 1, 0, 1650, 3300, 3301}
WidthArgs == {9, 10, 10000, 10001}

Raised(exc, d) == [res |-> exc, d |-> d]
Returned(d) == [res |-> "ok", d |-> d]

\* validation.py: TRUE when the call returns, FALSE when it raises ValueError
validate_voltage_safe(voltage, min_v, max_v) == min_v <= voltage /\ voltage <= max_v

validate_pulse_width_exclusive(width_ns, min_ns, max_ns) ==
    min_ns < width_ns /\ width_ns < max_ns

validate_pulse_width_safe(width_ns, min_ns, max_ns) ==
    min_ns <= width_ns /\ width_ns <= max_ns

\* the port's own check of a voltage against its range
is_voltage_compatible(voltage) == voltage_min_mv <= voltage /\ voltage <= voltage_max_mv

initialize_keeps_width(d) ==
    IF d.initialized
    THEN Returned(d)
    ELSE Returned([d EXCEPT !.voltage_mv = 0, !.initialized = TRUE])

initialize_always_resets(d) ==
    Returned([d EXCEPT !.voltage_mv = 0,
                       !.pulse_width_ns = InitialPulseWidth,
                       !.initialized = TRUE])

\* returns at once when already initialized; else the safe defaults
initialize(d) ==
    IF d.initialized
    THEN Returned(d)
    ELSE Returned([d EXCEPT !.voltage_mv = 0,
                            !.pulse_width_ns = InitialPulseWidth,
                            !.initialized = TRUE])

set_voltage_needs_rearm(d, voltage) ==
    IF ~d.initialized THEN Raised("RuntimeError", d)
    ELSE IF ~validate_voltage_safe(voltage, voltage_min_mv, voltage_max_mv)
         THEN Raised("ValueError", d)
    ELSE IF ~is_voltage_compatible(voltage) THEN Raised("ValueError", d)
    ELSE Returned([d EXCEPT !.voltage_mv = voltage, !.armed = FALSE])

set_voltage(d, voltage) ==
    IF ~d.initialized THEN Raised("RuntimeError", d)
    ELSE IF ~validate_voltage_safe(voltage, voltage_min_mv, voltage_max_mv)
         THEN Raised("ValueError", d)
    ELSE IF ~is_voltage_compatible(voltage) THEN Raised("ValueError", d)
    ELSE Returned([d EXCEPT !.voltage_mv = voltage])

set_pulse_width(d, width_ns) ==
    IF ~d.initialized THEN Raised("RuntimeError", d)
    ELSE IF ~validate_pulse_width_safe(width_ns, min_pulse_width_ns, max_pulse_width_ns)
         THEN Raised("ValueError", d)
    ELSE Returned([d EXCEPT !.pulse_width_ns = width_ns])

arm_unguarded(d) ==
    Returned([d EXCEPT !.armed = TRUE, !.last_trigger_time = None])

arm(d) ==
    IF ~d.initialized THEN Raised("RuntimeError", d)
    ELSE Returned([d EXCEPT !.armed = TRUE, !.last_trigger_time = None])

trigger_unguarded(d, now) ==
    Returned([d EXCEPT !.last_trigger_time = Some(now),
                       !.fired = Append(@, [voltage_mv |-> d.voltage_mv,
                                            pulse_width_ns |-> d.pulse_width_ns])])

trigger(d, now) ==
    IF ~d.armed THEN Raised("RuntimeError", d)
    ELSE Returned([d EXCEPT !.last_trigger_time = Some(now),
                            !.fired = Append(@, [voltage_mv |-> d.voltage_mv,
                                                 pulse_width_ns |-> d.pulse_width_ns])])

disarm_guarded(d) ==
    IF ~d.armed THEN Raised("RuntimeError", d)
    ELSE Returned([d EXCEPT !.armed = FALSE])

disarm(d) == Returned([d EXCEPT !.armed = FALSE])

shutdown_keeps_armed(d) == Returned([d EXCEPT !.initialized = FALSE])

shutdown(d) ==
    LET disarmed == IF d.armed THEN disarm(d).d ELSE d
    IN Returned([disarmed EXCEPT !.initialized = FALSE])

\* one call of a driver method: its outcome, the attributes before and after
DrvCall(op, arg, out, status) ==
    /\ drvNow < MaxDrvOps
    /\ drvOp' = [op |-> op, arg |-> arg]
    /\ drvResult' = out.res
    /\ drvPre' = drv
    /\ drv' = out.d
    /\ drvNow' = drvNow + 1
    /\ drvStatus' = status
    /\ UNCHANGED <<regVars, convVars, regyVars, fsmVars>>

Initialize == DrvCall("initialize", 0, initialize(drv), drvStatus)

SetVoltage(voltage) == DrvCall("set_voltage", voltage, set_voltage(drv, voltage), drvStatus)

SetPulseWidth(width_ns) ==
    DrvCall("set_pulse_width", width_ns, set_pulse_width(drv, width_ns), drvStatus)

Arm == DrvCall("arm", 0, arm(drv), drvStatus)

Trigger == DrvCall("trigger", 0, trigger(drv, drvNow + 1), drvStatus)

Disarm == DrvCall("disarm", 0, disarm(drv), drvStatus)

Shutdown == DrvCall("shutdown", 0, shutdown(drv), drvStatus)

\* the status dict; last_trigger_time is the time elapsed since the trigger
get_status(d, now) ==
    [armed             |-> d.armed,
     ready             |-> d.initialized /\ ~d.armed,
     fault             |-> FALSE,
     voltage_mv        |-> d.voltage_mv,
     pulse_width_ns    |-> d.pulse_width_ns,
     last_trigger_time |-> IF d.last_trigger_time.set
                           THEN Some(now - d.last_trigger_time.at)
                           ELSE None]

GetStatus == DrvCall("get_status", 0, Returned(drv), get_status(drv, drvNow + 1))

InitDrv ==
    /\ RegStart
    /\ ConvStart
    /\ DrvStart
    /\ RegyStart
    /\ FsmStart

NextDrv ==
    \/ Initialize
    \/ \E voltage \in VoltageArgs : SetVoltage(voltage)
    \/ \E width_ns \in WidthArgs : SetPulseWidth(width_ns)
    \/ Arm
    \/ Trigger
    \/ Disarm
    \/ Shutdown
    \/ GetStatus

SpecDrv == InitDrv /\ [][NextDrv]_vars

(***************************************************************************)
(* ProbeRegistry (bpd_core/registry.py).  A name is a sequence of          *)
(* characters; str.lower() is applied character by character.              *)
(***************************************************************************)
LowerChar(c) ==
    CASE c = "D" -> "d"
      [] c = "S" -> "s"
      [] OTHER -> c

lower_identity(name) == name

lower(name) == [i \in 1..Len(name) |-> LowerChar(name[i])]

Names == {<<"d", "s">>, <<"D", "S">>, <<"D", "s">>, <<"s", "d">>, <<"S", "d">>, <<"d", "1">>}
DriverClasses == {"DS1120ADriver", "LaserDriver"}

\* cls._drivers[key] = driver_class
DictSet(dict, key, value) ==
    [k \in DOMAIN dict \cup {key} |-> IF k = key THEN value ELSE dict[k]]

\* cls._drivers.get(key)
DictGet(dict, key) == IF key \in DOMAIN dict THEN dict[key] ELSE "None"

RegyCall(op, name, cls, value, names) ==
    /\ regyOps < MaxRegyOps
    /\ regyOp' = [op |-> op, name |-> name, cls |-> cls]
    /\ regyOut' = [value |-> value, names |-> names]
    /\ regyOps' = regyOps + 1
    /\ UNCHANGED <<regVars, convVars, drvVars, fsmVars>>

\* ProbeRegistry.register, also reached through the register_driver decorator
register(name, driver_class) ==
    /\ RegyCall("register", name, driver_class, "None", {})
    /\ drivers' = DictSet(drivers, lower(name), driver_class)
    /\ regyLog' = Append(regyLog, [name |-> name, cls |-> driver_class])

get_driver(name) ==
    /\ RegyCall("get_driver", name, "None", DictGet(drivers, lower(name)), {})
    /\ UNCHANGED <<drivers, regyLog>>

list_drivers ==
    /\ RegyCall("list_drivers", <<>>, "None", "None", DOMAIN drivers)
    /\ UNCHANGED <<drivers, regyLog>>

clear ==
    /\ RegyCall("clear", <<>>, "None", "None", {})
    /\ drivers' = EmptyDict
    /\ regyLog' = <<>>

InitRegy ==
    /\ RegStart
    /\ ConvStart
    /\ DrvStart
    /\ RegyStart
    /\ FsmStart

NextRegy ==
    \/ \E name \in Names, driver_class \in DriverClasses : register(name, driver_class)
    \/ \E name \in Names : get_driver(name)
    \/ list_drivers
    \/ clear

SpecRegy == InitRegy /\ [][NextRegy]_vars

(***************************************************************************)
(* Probe FSM Controller (spec.md section 4.4, with the Monitor/Fault       *)
(* Evaluator of section 4.3).  The controller's hardware description is    *)
(* not among the source files, so this part follows the specification.     *)
(* Durations, the cooldown interval, the trigger timeout and the monitor   *)
(* window are held already converted to ticks.                             *)
(***************************************************************************)
FsmInputs ==
    [enable : BOOLEAN, arm : BOOLEAN, trigger : BOOLEAN, disarm : BOOLEAN,
     fault_clear : BOOLEAN, hw_fault : BOOLEAN, sample : Samples]

\* the copy of the drive and monitor registers taken at the IDLE->ARMED step
Snapshot(r) ==
    [trig_out_voltage          |-> r.trig_out_voltage,
     trig_out_duration         |-> r.trig_out_duration,
     intensity_voltage         |-> r.intensity_voltage,
     intensity_duration        |-> r.intensity_duration,
     cooldown_interval         |-> r.cooldown_interval,
     monitor_enable            |-> r.monitor_enable,
     monitor_threshold_voltage |-> r.monitor_threshold_voltage,
     monitor_expect_negative   |-> r.monitor_expect_negative,
     monitor_window_start      |-> r.monitor_window_start,
     monitor_window_duration   |-> r.monitor_window_duration]

Shorter(a, b) == IF a >= b THEN b ELSE a

Longer(a, b) == IF a >= b THEN a ELSE b

DriveTicks(s) == Longer(s.trig_out_duration, s.intensity_duration)

RisingEdge(prev, level) == level /\ ~prev

Crossing_ignores_polarity(sample, s) == sample <= s.monitor_threshold_voltage

\* section 4.3: the threshold condition and the window, in ticks from the trigger
Crossing(sample, s) ==
    IF s.monitor_expect_negative
    THEN sample <= s.monitor_threshold_voltage
    ELSE sample >= s.monitor_threshold_voltage

InWindow(tick, s) ==
    /\ s.monitor_window_start <= tick
    /\ tick < s.monitor_window_start + s.monitor_window_duration

EnterArmed(f, r) ==
    [f EXCEPT !.state = "ARMED", !.ticks = 0, !.snap = Snapshot(r),
              !.status = "none", !.crossed = FALSE, !.disarm_pending = FALSE,
              !.trig_ticks = 0, !.int_ticks = 0]

EnterIdle(f, status) ==
    [f EXCEPT !.state = "IDLE", !.ticks = 0, !.status = status,
              !.fault = FALSE, !.cause = "None"]

EnterFault(f, cause) ==
    [f EXCEPT !.state = "FAULT", !.ticks = 0, !.fault = TRUE, !.cause = cause]

\* the tick counter runs in the timed states only
InIdle(f, in, r) ==
    IF in.arm /\ ~f.fault
    THEN EnterArmed(f, r)
    ELSE f

InArmed_timeout_faults(f, in, r) ==
    IF in.disarm THEN EnterIdle(f, "none")
    ELSE IF in.trigger THEN [f EXCEPT !.state = "FIRING", !.ticks = 0]
    ELSE IF f.ticks + 1 >= r.trigger_wait_timeout THEN EnterFault(f, "Timeout")
    ELSE [f EXCEPT !.ticks = @ + 1]

\* disarm first, then the trigger, then the count against the timeout
InArmed(f, in, r) ==
    IF in.disarm THEN EnterIdle(f, "none")
    ELSE IF in.trigger THEN [f EXCEPT !.state = "FIRING", !.ticks = 0]
    ELSE IF f.ticks + 1 >= r.trigger_wait_timeout THEN EnterIdle(f, "timeout")
    ELSE [f EXCEPT !.ticks = @ + 1]

InFiring_disarm_truncates(f, in, r) ==
    IF in.disarm THEN EnterIdle(f, "none")
    ELSE LET g == [f EXCEPT !.ticks = @ + 1,
                            !.trig_ticks = IF f.ticks < f.snap.trig_out_duration
                                           THEN @ + 1 ELSE @,
                            !.int_ticks = IF f.ticks < f.snap.intensity_duration
                                          THEN @ + 1 ELSE @]
         IN IF g.ticks >= DriveTicks(f.snap)
            THEN [g EXCEPT !.state = "COOLDOWN", !.ticks = 0]
            ELSE g

\* the pulses run for their snapshot durations; a disarm is only noted
InFiring(f, in, r) ==
    LET g == [f EXCEPT !.ticks = @ + 1,
                       !.trig_ticks = IF f.ticks < f.snap.trig_out_duration
                                      THEN @ + 1 ELSE @,
                       !.int_ticks = IF f.ticks < f.snap.intensity_duration
                                     THEN @ + 1 ELSE @,
                       !.disarm_pending = @ \/ in.disarm]
    IN IF g.ticks >= DriveTicks(f.snap)
       THEN [g EXCEPT !.state = "COOLDOWN", !.ticks = 0]
       ELSE g

InCooldown_live_registers(f, in, r) ==
    LET since == DriveTicks(f.snap) + f.ticks
        hit == /\ r.monitor_enable
               /\ InWindow(since, f.snap)
               /\ Crossing(in.sample, Snapshot(r))
        g == [f EXCEPT !.ticks = @ + 1, !.crossed = @ \/ hit]
    IN IF g.ticks < f.snap.cooldown_interval THEN g
       ELSE IF r.monitor_enable /\ ~g.crossed THEN EnterFault(g, "MonitorMiss")
       ELSE IF in.hw_fault THEN EnterFault(g, "HardwareFault")
       ELSE IF r.auto_rearm_enable /\ ~g.disarm_pending THEN EnterArmed(g, r)
       ELSE EnterIdle(g, "none")

\* outputs at zero; the monitor result is finalized; the decision at expiry
InCooldown(f, in, r) ==
    LET since == DriveTicks(f.snap) + f.ticks
        hit == /\ f.snap.monitor_enable
               /\ InWindow(since, f.snap)
               /\ Crossing(in.sample, f.snap)
        g == [f EXCEPT !.ticks = @ + 1, !.crossed = @ \/ hit]
    IN IF g.ticks < f.snap.cooldown_interval THEN g
       ELSE IF f.snap.monitor_enable /\ ~g.crossed THEN EnterFault(g, "MonitorMiss")
       ELSE IF in.hw_fault THEN EnterFault(g, "HardwareFault")
       ELSE IF r.auto_rearm_enable /\ ~g.disarm_pending THEN EnterArmed(g, r)
       ELSE EnterIdle(g, "none")

InFault_level_clears(f, in, r) ==
    IF in.fault_clear
    THEN EnterIdle(f, "none")
    ELSE f

\* FAULT is left only on a rising edge of fault_clear
InFault(f, in, r) ==
    IF RisingEdge(f.fault_clear_prev, in.fault_clear)
    THEN EnterIdle(f, "none")
    ELSE f

\* the tick on which a snapshot is taken: the controller enters ARMED
Capturing(f, g) == f.state # "ARMED" /\ g.state = "ARMED"

Step_ready_in_idle(f, in, r) ==
    IF ~in.enable THEN f
    ELSE LET g == CASE f.state = "IDLE"     -> InIdle(f, in, r)
                    [] f.state = "ARMED"    -> InArmed(f, in, r)
                    [] f.state = "FIRING"   -> InFiring(f, in, r)
                    [] f.state = "COOLDOWN" -> InCooldown(f, in, r)
                    [] f.state = "FAULT"    -> InFault(f, in, r)
         IN [g EXCEPT !.fault_clear_prev = in.fault_clear,
                      !.ready_for_updates = (g.state = "IDLE")]

Step_ungated(f, in, r) ==
    LET g == CASE f.state = "IDLE"     -> InIdle(f, in, r)
               [] f.state = "ARMED"    -> InArmed(f, in, r)
               [] f.state = "FIRING"   -> InFiring(f, in, r)
               [] f.state = "COOLDOWN" -> InCooldown(f, in, r)
               [] f.state = "FAULT"    -> InFault(f, in, r)
    IN [g EXCEPT !.fault_clear_prev = in.fault_clear,
                 !.ready_for_updates = ~Capturing(f, g)]

\* one controller tick: the global enable gates everything; ready_for_updates
\* is low on the tick that captures the snapshot and high on every other
Step(f, in, r) ==
    IF ~in.enable THEN f
    ELSE LET g == CASE f.state = "IDLE"     -> InIdle(f, in, r)
                    [] f.state = "ARMED"    -> InArmed(f, in, r)
                    [] f.state = "FIRING"   -> InFiring(f, in, r)
                    [] f.state = "COOLDOWN" -> InCooldown(f, in, r)
                    [] f.state = "FAULT"    -> InFault(f, in, r)
         IN [g EXCEPT !.fault_clear_prev = in.fault_clear,
                      !.ready_for_updates = ~Capturing(f, g)]

\* status outputs
busy(f) == f.state \in {"FIRING", "COOLDOWN"}
TrigOut(f) ==
    IF f.state = "FIRING" /\ f.ticks < f.snap.trig_out_duration
    THEN f.snap.trig_out_voltage ELSE 0
IntensityOut(f) ==
    IF f.state = "FIRING" /\ f.ticks < f.snap.intensity_duration
    THEN f.snap.intensity_voltage ELSE 0

FsmTick(in) ==
    /\ fsm' = Step(fsm, in, fsmRegs)
    /\ fsmPre' = fsm
    /\ fsmEv' = "tick"
    /\ UNCHANGED <<fsmRegs, fsmWrites, regVars, convVars, drvVars, regyVars>>

\* a validated register write arriving between two ticks, while the
\* controller accepts writes
FsmWrite(field, value) ==
    /\ fsmWrites < MaxFsmWrites
    /\ fsm.ready_for_updates
    /\ fsmRegs' = [fsmRegs EXCEPT ![field] = value]
    /\ fsmWrites' = fsmWrites + 1
    /\ fsmPre' = fsm
    /\ fsmEv' = "write"
    /\ UNCHANGED <<fsm, regVars, convVars, drvVars, regyVars>>

InitFsm ==
    /\ RegStart
    /\ ConvStart
    /\ DrvStart
    /\ RegyStart
    /\ fsm = FsmReset
    /\ fsmRegs \in FsmConfigs
    /\ fsmPre = FsmReset
    /\ fsmEv = "reset"
    /\ fsmWrites = 0

NextFsm ==
    \/ \E in \in FsmInputs : FsmTick(in)
    \/ \E field \in DOMAIN FsmIntWrites : \E value \in FsmIntWrites[field] :
           FsmWrite(field, value)
    \/ \E field \in FsmBoolWrites : \E value \in BOOLEAN : FsmWrite(field, value)

SpecFsm == InitFsm /\ [][NextFsm]_vars

(***************************************************************************)
(* Properties.  The declared ranges are those of the register table of    *)
(* the specification, written out independently of the setters above.     *)
(***************************************************************************)
DeclaredRange ==
    [trigger_wait_timeout      |-> <<0, 3600>>,
     trig_out_voltage          |-> <<0 - 5000, 5000>>,
     trig_out_duration         |-> <<20, 50000>>,
     intensity_voltage         |-> <<0 - 5000, 5000>>,
     intensity_duration        |-> <<20, 50000>>,
     cooldown_interval         |-> <<1, 500000>>,
     probe_monitor_feedback    |-> <<0 - 5000, 5000>>,
     monitor_threshold_voltage |-> <<0 - 5000, 5000>>,
     monitor_window_start      |-> <<0, 2000000000>>,
     monitor_window_duration   |-> <<100, 2000000000>>]

WritableIntFields == IntFields \ {"probe_monitor_feedback"}
WritableFields == WritableIntFields \cup BoolFields

IsNumber(value) == value.t \in {"int", "bool", "float"}

\* the number lies in the declared range of f
NumberInside(f, value) ==
    /\ IsNumber(value)
    /\ DeclaredRange[f][1] <= value.v
    /\ IF value.t = "float" THEN value.v < DeclaredRange[f][2]
                            ELSE value.v <= DeclaredRange[f][2]

\* the number lies outside the declared range of f
NumberOutside(f, value) == IsNumber(value) /\ ~NumberInside(f, value)

IsWrite == lastOp.op = "write"
IsHwUpdate == lastOp.op = "hw_update"
Feedback == "probe_monitor_feedback"

\* C1: a write of a value outside the declared range of a writable integer
\* register fails with ValueError and leaves every register as it was.
C1_OutOfRangeWriteRejected ==
    (IsWrite /\ lastOp.field \in WritableIntFields
        /\ NumberOutside(lastOp.field, lastOp.value))
    => (result = "ValueError" /\ regs = pre.regs)

\* C1 witness: an out-of-range write has failed on a register that held a
\* value written earlier, and that value is still there.
C1_Witness ==
    /\ IsWrite /\ lastOp.field \in WritableIntFields
    /\ NumberOutside(lastOp.field, lastOp.value)
    /\ result = "ValueError"
    /\ regs[lastOp.field] # Defaults[lastOp.field]

\* C2: a write of an in-range value (an integer within the bounds, both
\* included, or a boolean to a boolean register) succeeds and reads back
\* exactly; a writable register changes only by a successful write to it.
C2_InRangeWriteReadsBack ==
    /\ (IsWrite /\ lastOp.field \in WritableIntFields
            /\ lastOp.value.t = "int"
            /\ NumberInside(lastOp.field, lastOp.value))
       => (result = "ok" /\ regs[lastOp.field] = lastOp.value)
    /\ (IsWrite /\ lastOp.field \in BoolFields /\ lastOp.value.t = "bool")
       => (result = "ok" /\ regs[lastOp.field] = lastOp.value)
    /\ \A f \in WritableFields :
          regs[f] # pre.regs[f]
          => (IsWrite /\ lastOp.field = f /\ result = "ok")

\* C2 witness: a register holds the upper bound written to it, after a later
\* operation on something else.
C2_Witness ==
    \E f \in WritableIntFields :
        /\ regs[f] = [t |-> "int", v |-> DeclaredRange[f][2]]
        /\ pre.regs[f] = regs[f]
        /\ lastOp.field # f
        /\ nops >= 2

\* C3: in every reachable state every integer register holds a number within
\* its declared range.
C3_ValuesWithinDeclaredRange ==
    /\ NumberInside("trigger_wait_timeout", regs.trigger_wait_timeout)
    /\ NumberInside("trig_out_voltage", regs.trig_out_voltage)
    /\ NumberInside("trig_out_duration", regs.trig_out_duration)
    /\ NumberInside("intensity_voltage", regs.intensity_voltage)
    /\ NumberInside("intensity_duration", regs.intensity_duration)
    /\ NumberInside("cooldown_interval", regs.cooldown_interval)
    /\ NumberInside("probe_monitor_feedback", regs.probe_monitor_feedback)
    /\ NumberInside("monitor_threshold_voltage", regs.monitor_threshold_voltage)
    /\ NumberInside("monitor_window_start", regs.monitor_window_start)
    /\ NumberInside("monitor_window_duration", regs.monitor_window_duration)

\* C3 witness: a failed write after a successful feedback update.
C3_Witness ==
    /\ IsWrite /\ result = "ValueError"
    /\ regs.probe_monitor_feedback = [t |-> "int", v |-> 0 - 5000]

\* C4: a write of a non-boolean value (0 and 1 included) to a boolean
\* register fails with TypeError and leaves every register as it was.
C4_NonBoolRejected ==
    (IsWrite /\ lastOp.field \in BoolFields /\ lastOp.value.t # "bool")
    => (result = "TypeError" /\ regs = pre.regs)

\* C4 witness: the integer 1 was refused by a boolean register whose value
\* had been changed by an earlier write.
C4_Witness ==
    /\ IsWrite /\ lastOp.field \in BoolFields
    /\ lastOp.value = [t |-> "int", v |-> 1]
    /\ result = "TypeError"
    /\ regs[lastOp.field] # Defaults[lastOp.field]

\* C5: a write of a value that is not an integer (a boolean, a non-integer
\* number) to an integer register is rejected and the register is unchanged.
C5_WrongTypeRejected ==
    (IsWrite /\ lastOp.field \in WritableIntFields /\ lastOp.value.t # "int")
    => (result # "ok" /\ regs = pre.regs)

\* C6: a public write to probe_monitor_feedback fails and changes nothing;
\* the register changes only through the hardware update path, to the value
\* passed, which is within -5000..5000; an update outside that range fails
\* and changes nothing.
C6_FeedbackReadOnly ==
    /\ (IsWrite /\ lastOp.field = Feedback)
       => (result = "AttributeError" /\ regs = pre.regs)
    /\ regs[Feedback] # pre.regs[Feedback]
       => (/\ IsHwUpdate /\ result = "ok"
           /\ regs[Feedback] = lastOp.value
           /\ NumberInside(Feedback, lastOp.value))
    /\ (IsHwUpdate /\ NumberOutside(Feedback, lastOp.value))
       => (result = "ValueError" /\ regs = pre.regs)

\* C6 witness: a public write was refused after the hardware path had stored
\* a sample.
C6_Witness ==
    /\ IsWrite /\ lastOp.field = Feedback
    /\ result = "AttributeError"
    /\ regs[Feedback] = [t |-> "int", v |-> 5000]

\* C7: the cross-field check on the monitor window.  2000000000 +
\* 2000000000 is the largest sum the per-field bounds admit, so a check that
\* adds anything to the per-field bounds rejects the write that completes
\* this pair, and both fields keep their values.
C7_CrossFieldCheckRejects ==
    LET top == [t |-> "int", v |-> 2000000000]
        other(f) == IF f = "monitor_window_start"
                    THEN "monitor_window_duration"
                    ELSE "monitor_window_start"
    IN  (/\ IsWrite
         /\ lastOp.field \in {"monitor_window_start", "monitor_window_duration"}
         /\ lastOp.value = top
         /\ pre.regs[other(lastOp.field)] = top)
        => (/\ result # "ok"
            /\ regs.monitor_window_start = pre.regs.monitor_window_start
            /\ regs.monitor_window_duration = pre.regs.monitor_window_duration)

\* C8: to_dict returns a new dict holding, under each of the 14 register
\* names, the value of that register at the time of the call, and changes no
\* register and no earlier dict; register writes change no dict, and an
\* assignment to a dict entry changes no register and no other dict.
C8_SnapshotIsCopy ==
    /\ lastOp.op = "to_dict"
       => (/\ result = "ok"
           /\ regs = pre.regs
           /\ Len(snaps) = Len(pre.snaps) + 1
           /\ SubSeq(snaps, 1, Len(pre.snaps)) = pre.snaps
           /\ DOMAIN snaps[Len(snaps)] = AllFields
           /\ \A f \in AllFields : snaps[Len(snaps)][f] = regs[f])
    /\ (IsWrite \/ IsHwUpdate) => snaps = pre.snaps
    /\ lastOp.op = "dict_set"
       => (/\ regs = pre.regs
           /\ Len(snaps) = Len(pre.snaps)
           /\ \A i \in 1..Len(snaps) : \A f \in AllFields :
                 snaps[i][f] # pre.snaps[i][f] => f = lastOp.field)

\* C8 witness: a register was written after a snapshot was taken, and the
\* snapshot still holds the old value.
C8_Witness ==
    /\ Len(snaps) >= 1
    /\ IsWrite /\ result = "ok"
    /\ snaps[1][lastOp.field] # regs[lastOp.field]
    /\ snaps[1][lastOp.field] = pre.regs[lastOp.field]

\* C9: a freshly constructed bank holds the documented defaults.
C9_DocumentedDefaults ==
    nops = 0 =>
        /\ regs.trigger_wait_timeout = [t |-> "int", v |-> 2]
        /\ regs.auto_rearm_enable = [t |-> "bool", v |-> 0]
        /\ regs.fault_clear = [t |-> "bool", v |-> 0]
        /\ regs.trig_out_voltage = [t |-> "int", v |-> 0]
        /\ regs.trig_out_duration = [t |-> "int", v |-> 100]
        /\ regs.intensity_voltage = [t |-> "int", v |-> 0]
        /\ regs.intensity_duration = [t |-> "int", v |-> 200]
        /\ regs.cooldown_interval = [t |-> "int", v |-> 10]
        /\ regs.probe_monitor_feedback = [t |-> "int", v |-> 0]
        /\ regs.monitor_enable = [t |-> "bool", v |-> 1]
        /\ regs.monitor_threshold_voltage = [t |-> "int", v |-> 0 - 200]
        /\ regs.monitor_expect_negative = [t |-> "bool", v |-> 1]
        /\ regs.monitor_window_start = [t |-> "int", v |-> 0]
        /\ regs.monitor_window_duration = [t |-> "int", v |-> 5000]
        /\ DOMAIN regs = AllFields

\* C9 witness: the bank right after construction.
C9_Witness == nops = 0 /\ lastOp.op = "init" /\ snaps = <<>>

\* C10: at 125 MHz, ns_to_cycles(1000) is 125 and cycles_to_ns(125) is 1000.
C10_CalibrationPair ==
    /\ (convFn = "ns_to_cycles" /\ convArg = 1000 /\ convFreq = 125)
       => convOut = 125
    /\ (convFn = "cycles_to_ns" /\ convArg = 125 /\ convFreq = 125)
       => convOut = 1000

\* C10 witness: ns_to_cycles was called with 1000 at 125 MHz.
C10_Witness ==
    convFn = "ns_to_cycles" /\ convArg = 1000 /\ convFreq = 125 /\ convOut = 125

\* C11: at 125 MHz (tick period 8 ns) the round trip cycles_to_ns(
\* ns_to_cycles(n)) returns n for every multiple n >= 0 of the period, and
\* for every other n >= 0 a value below n by less than one period.
C11_RoundTripAt125 ==
    (convFn = "round_trip" /\ convFreq = 125 /\ convArg >= 0)
    => IF convArg % 8 = 0
       THEN convOut = convArg
       ELSE convOut < convArg /\ convArg - convOut < 8

\* C11 witness: 999 ns went to ticks and back and came out as 992 ns.
C11_Witness ==
    convFn = "round_trip" /\ convFreq = 125 /\ convArg = 999 /\ convOut = 992

\* the integer part of the rational a / b, b > 0
IntegerPart(a, b) == IF a >= 0 THEN a \div b ELSE 0 - ((0 - a) \div b)

\* C12: ns_to_cycles(n) is the integer part of n / p for the tick period
\* p = 1000 / clock_freq_mhz, that is of n * clock_freq_mhz / 1000;
\* us_to_cycles(u) and s_to_cycles(s) are that of 1000 u and 1000000000 s;
\* no non-negative argument gives a negative count.
C12_TruncatesTowardZero ==
    /\ convFn = "ns_to_cycles"
       => convOut = IntegerPart(convArg * convFreq, 1000)
    /\ convFn = "us_to_cycles" => convOut = convArg * convFreq
    /\ convFn = "s_to_cycles" => convOut = convArg * convFreq * 1000000
    /\ (convFn \in {"ns_to_cycles", "us_to_cycles", "s_to_cycles"}
            /\ convArg >= 0)
       => convOut >= 0

(***************************************************************************)
(* Claims about the DS1120A driver, checked under SpecDrv.                 *)
(***************************************************************************)
Refused(exc) == drvResult = exc /\ drv = drvPre

\* C13: a trigger is honoured only while the probe is armed; a trigger on a
\* probe that is not armed raises RuntimeError, issues no pulse command,
\* records no trigger time and leaves every attribute as it was.
C13_TriggerOnlyWhenArmed ==
    (drvOp.op = "trigger" /\ ~drvPre.armed) =>
        /\ drvResult = "RuntimeError"
        /\ drv.fired = drvPre.fired
        /\ drv.last_trigger_time = drvPre.last_trigger_time
        /\ drv = drvPre

\* a probe that fired while armed, was disarmed, and then refused a trigger
C13_Witness ==
    /\ drvOp.op = "trigger"
    /\ drvResult = "RuntimeError"
    /\ drv.initialized
    /\ ~drv.armed
    /\ Len(drv.fired) = 1

\* C14: disarm never fails, whatever the state; it leaves the probe not
\* armed and changes nothing else; only arm makes the probe armed again,
\* and no trigger is accepted in between.
C14_DisarmAlwaysSafe ==
    /\ drvOp.op = "disarm" =>
           /\ drvResult = "ok"
           /\ ~drv.armed
           /\ drv = [drvPre EXCEPT !.armed = FALSE]
    /\ (drv.armed /\ ~drvPre.armed) => drvOp.op = "arm"
    /\ (drvOp.op = "trigger" /\ drvResult = "ok") => drvPre.armed

\* disarm acting on an armed probe that has already fired
C14_Witness ==
    /\ drvOp.op = "disarm"
    /\ drvPre.armed
    /\ ~drv.armed
    /\ drv.last_trigger_time.set

\* C15: before initialize, and after shutdown, set_voltage, set_pulse_width
\* and arm raise RuntimeError and change nothing.
C15_UninitializedRefuses ==
    (drvOp.op \in {"set_voltage", "set_pulse_width", "arm"} /\ ~drvPre.initialized)
        => Refused("RuntimeError")

\* arm refused on a driver that was initialized and then shut down
C15_Witness ==
    /\ drvOp.op = "arm"
    /\ drvResult = "RuntimeError"
    /\ ~drv.initialized
    /\ drv.pulse_width_ns = 100

\* C16: on an initialized driver a voltage outside 0..3.3 V or a pulse width
\* outside 10..10000 ns raises ValueError and keeps the previous setting; a
\* value inside the range, bounds included, is stored.
C16_RangeCheckedSetters ==
    /\ (drvOp.op = "set_voltage" /\ drvPre.initialized) =>
           IF 0 <= drvOp.arg /\ drvOp.arg <= 3300
           THEN drvResult = "ok" /\ drv = [drvPre EXCEPT !.voltage_mv = drvOp.arg]
           ELSE Refused("ValueError")
    /\ (drvOp.op = "set_pulse_width" /\ drvPre.initialized) =>
           IF 10 <= drvOp.arg /\ drvOp.arg <= 10000
           THEN drvResult = "ok" /\ drv = [drvPre EXCEPT !.pulse_width_ns = drvOp.arg]
           ELSE Refused("ValueError")

\* the upper bound was stored, then a width one above it was rejected
C16_Witness ==
    /\ drvOp.op = "set_pulse_width"
    /\ drvOp.arg = 10001
    /\ drvResult = "ValueError"
    /\ drv.pulse_width_ns = 10000

\* C17: shutdown leaves the driver neither armed nor initialized; from then
\* on trigger, arm, set_voltage and set_pulse_width are refused, and only
\* initialize makes the driver initialized again.
C17_ShutdownReturnsToUninitialized ==
    /\ drvOp.op = "shutdown" =>
           /\ drvResult = "ok"
           /\ ~drv.armed
           /\ ~drv.initialized
    /\ (/\ drvOp.op \in {"trigger", "arm", "set_voltage", "set_pulse_width"}
        /\ ~drvPre.initialized) => Refused("RuntimeError")
    /\ (drv.initialized /\ ~drvPre.initialized) => drvOp.op = "initialize"

\* a probe that fired, was shut down while armed, and then refused a trigger
C17_Witness ==
    /\ drvOp.op = "trigger"
    /\ drvResult = "RuntimeError"
    /\ ~drv.initialized
    /\ Len(drv.fired) = 1

(***************************************************************************)
(* Claims about the ProbeRegistry, checked under SpecRegy.                 *)
(***************************************************************************)
SameLetter(a, b) ==
    \/ a = b
    \/ {a, b} = {"d", "D"}
    \/ {a, b} = {"s", "S"}

CaseVariant(a, b) ==
    /\ Len(a) = Len(b)
    /\ \A i \in 1..Len(a) : SameLetter(a[i], b[i])

\* the positions in the log of the registrations under a case variant of name
RegisteredAs(name) == {i \in 1..Len(regyLog) : CaseVariant(regyLog[i].name, name)}

Latest(S) == CHOOSE i \in S : \A j \in S : j <= i

\* C18: get_driver ignores letter case: it returns the class most recently
\* registered under any case variant of the name, and None when no variant
\* was registered since the last clear.
C18_LookupIgnoresCase ==
    regyOp.op = "get_driver" =>
        IF RegisteredAs(regyOp.name) = {}
        THEN regyOut.value = "None"
        ELSE regyOut.value = regyLog[Latest(RegisteredAs(regyOp.name))].cls

\* two classes registered under two spellings, looked up under a third
C18_Witness ==
    /\ regyOp.op = "get_driver"
    /\ Len(regyLog) = 2
    /\ regyLog[1].cls # regyLog[2].cls
    /\ regyLog[1].name # regyLog[2].name
    /\ regyOp.name \notin {regyLog[1].name, regyLog[2].name}
    /\ RegisteredAs(regyOp.name) = {1, 2}
    /\ regyOut.value = regyLog[2].cls

(***************************************************************************)
(* Claims about the Probe FSM Controller, checked under SpecFsm.  A claim  *)
(* about what a tick does is stated for every input the tick can sample.   *)
(***************************************************************************)
\* the controller's state apart from the memory of its edge detector
Visible(f) == [f EXCEPT !.fault_clear_prev = FALSE]

\* C19: a latched fault is sticky.  In FAULT, whatever the arm, trigger and
\* disarm inputs and whatever the registers hold, a tick leaves FAULT only
\* when it observes a rising edge of fault_clear, and then it goes to IDLE
\* with the fault cleared; in IDLE no fault is latched and an arm request
\* is honoured; outside FAULT a fault_clear pulse changes nothing.
C19_FaultIsSticky ==
    /\ fsm.fault <=> fsm.state = "FAULT"
    /\ fsm.state = "FAULT" =>
           \A in \in FsmInputs :
               LET next == Step(fsm, in, fsmRegs)
               IN IF in.enable /\ in.fault_clear /\ ~fsm.fault_clear_prev
                  THEN next.state = "IDLE" /\ ~next.fault /\ next.cause = "None"
                  ELSE next.state = "FAULT" /\ next.fault /\ next.cause = fsm.cause
    /\ fsm.state = "IDLE" =>
           \A in \in FsmInputs :
               (in.enable /\ in.arm) => Step(fsm, in, fsmRegs).state = "ARMED"
    /\ fsm.state # "FAULT" =>
           \A in \in FsmInputs :
               in.fault_clear =>
                   Visible(Step(fsm, in, fsmRegs))
                       = Visible(Step(fsm, [in EXCEPT !.fault_clear = FALSE], fsmRegs))

\* a monitor miss was latched and then cleared by a rising edge
C19_Witness ==
    /\ fsmEv = "tick"
    /\ fsmPre.state = "FAULT"
    /\ fsmPre.cause = "MonitorMiss"
    /\ ~fsmPre.fault_clear_prev
    /\ fsm.state = "IDLE"
    /\ ~fsm.fault

\* C20: a disarm request at any tick of FIRING does not truncate the pulse.
\* The tick does what it would have done without the request, except that
\* the request is noted; the controller stays busy, and FIRING ends only by
\* entering COOLDOWN, with both pulses driven for their configured ticks.
C20_DisarmDoesNotTruncate ==
    /\ fsm.state = "FIRING" =>
           \A in \in FsmInputs :
               (in.enable /\ in.disarm) =>
                   LET next == Step(fsm, in, fsmRegs)
                       undisturbed == Step(fsm, [in EXCEPT !.disarm = FALSE], fsmRegs)
                   IN /\ next.state \in {"FIRING", "COOLDOWN"}
                      /\ next = [undisturbed EXCEPT !.disarm_pending = TRUE]
    /\ (fsmPre.state = "FIRING" /\ fsm.state # "FIRING") =>
           /\ fsm.state = "COOLDOWN"
           /\ fsm.trig_ticks = fsm.snap.trig_out_duration
           /\ fsm.int_ticks = fsm.snap.intensity_duration

\* a three-tick pulse that ran to its end although a disarm was requested
C20_Witness ==
    /\ fsmEv = "tick"
    /\ fsmPre.state = "FIRING"
    /\ fsm.state = "COOLDOWN"
    /\ fsm.disarm_pending
    /\ fsm.trig_ticks = 3
    /\ fsm.int_ticks = 2

\* the drive and monitor registers, which a cycle reads from its snapshot
DriveMonitorFields ==
    {"trig_out_voltage", "trig_out_duration", "intensity_voltage",
     "intensity_duration", "cooldown_interval", "monitor_enable",
     "monitor_threshold_voltage", "monitor_expect_negative",
     "monitor_window_start", "monitor_window_duration"}

\* the register contents after one more write to a drive or monitor register
Rewritten(r) ==
    {[r EXCEPT !.trig_out_duration = 3],
     [r EXCEPT !.trig_out_voltage = 1000],
     [r EXCEPT !.intensity_duration = 1],
     [r EXCEPT !.cooldown_interval = 1],
     [r EXCEPT !.monitor_threshold_voltage = 0 - 300],
     [r EXCEPT !.monitor_enable = ~r.monitor_enable]}

\* C21: a firing cycle uses the snapshot taken at the IDLE-to-ARMED step.
\* The snapshot equals the registers at that step and is kept until the
\* next entry into ARMED; a write is stored and leaves the controller as
\* it was; and in FIRING and COOLDOWN a tick does the same whatever was
\* written to the drive and monitor registers meanwhile (only a snapshot
\* for the next cycle, taken on auto-rearm, reads the new values).
C21_CycleUsesArmSnapshot ==
    /\ (fsmEv = "tick" /\ fsmPre.state = "IDLE" /\ fsm.state = "ARMED") =>
           \A field \in DriveMonitorFields : fsm.snap[field] = fsmRegs[field]
    /\ (fsmEv = "tick" /\ fsm.state \in {"FIRING", "COOLDOWN"}) =>
           fsm.snap = fsmPre.snap
    /\ fsmEv = "write" => fsm = fsmPre
    /\ fsm.state \in {"FIRING", "COOLDOWN"} =>
           \A in \in FsmInputs : \A written \in Rewritten(fsmRegs) :
               LET kept == Step(fsm, in, fsmRegs)
                   other == Step(fsm, in, written)
               IN IF kept.state = "ARMED"
                  THEN [other EXCEPT !.snap = kept.snap] = kept
                  ELSE other = kept
    /\ fsm.state = "FIRING" =>
           /\ TrigOut(fsm) = IF fsm.trig_ticks < fsm.snap.trig_out_duration
                             THEN fsm.snap.trig_out_voltage ELSE 0
           /\ IntensityOut(fsm) = IF fsm.int_ticks < fsm.snap.intensity_duration
                                  THEN fsm.snap.intensity_voltage ELSE 0

\* a voltage written in mid-pulse: stored, while the output keeps 3300 mV
C21_Witness ==
    /\ fsmEv = "write"
    /\ fsm.state = "FIRING"
    /\ fsmRegs.trig_out_voltage = 1000
    /\ fsm.snap.trig_out_voltage = 3300
    /\ TrigOut(fsm) = 3300

\* the state changes a tick may make
CycleOrder ==
    {<<"IDLE", "ARMED">>, <<"ARMED", "FIRING">>, <<"ARMED", "IDLE">>,
     <<"FIRING", "COOLDOWN">>, <<"COOLDOWN", "IDLE">>, <<"COOLDOWN", "ARMED">>,
     <<"COOLDOWN", "FAULT">>, <<"FAULT", "IDLE">>}

PulseTicks(s) ==
    IF s.trig_out_duration >= s.intensity_duration
    THEN s.trig_out_duration ELSE s.intensity_duration

C23_EnableGatesEverything ==
    /\ \A in \in FsmInputs : ~in.enable => Step(fsm, in, fsmRegs) = fsm
    /\ \A in \in FsmInputs :
           LET next == Step(fsm, in, fsmRegs)
           IN (in.enable /\ next.state = fsm.state) => next.ready_for_updates

\* a tick that held the controller in mid-pulse
C23_Witness ==
    /\ fsmEv = "tick"
    /\ fsmPre.state = "FIRING"
    /\ fsmPre.ticks = 1
    /\ fsm = fsmPre

\* C24: the wait for a trigger is bounded.  In ARMED an enabled tick with
\* neither trigger nor disarm counts one tick; the tick that completes
\* trigger_wait_timeout ticks goes to IDLE with the timeout status and no
\* fault latched; the count never reaches the timeout while still ARMED,
\* and no tick takes ARMED to FAULT.
C24_TriggerWaitIsBounded ==
    fsm.state = "ARMED" =>
        /\ fsm.ticks < fsmRegs.trigger_wait_timeout
        /\ \A in \in FsmInputs :
               LET next == Step(fsm, in, fsmRegs)
               IN /\ next.state # "FAULT"
                  /\ ~next.fault
                  /\ (in.enable /\ ~in.trigger /\ ~in.disarm) =>
                         IF fsm.ticks + 1 = fsmRegs.trigger_wait_timeout
                         THEN /\ next.state = "IDLE"
                              /\ next.status = "timeout"
                              /\ next.cause = "None"
                         ELSE /\ next.state = "ARMED"
                              /\ next.ticks = fsm.ticks + 1

\* a wait of three ticks that ran out
C24_Witness ==
    /\ fsmEv = "tick"
    /\ fsmPre.state = "ARMED"
    /\ fsmPre.ticks = 2
    /\ fsm.state = "IDLE"
    /\ fsm.status = "timeout"
    /\ ~fsm.fault

\* the threshold condition of a snapshot s, and its window in ticks from the
\* trigger, written out from the monitor registers
Satisfies(sample, s) ==
    \/ s.monitor_expect_negative /\ sample <= s.monitor_threshold_voltage
    \/ ~s.monitor_expect_negative /\ sample >= s.monitor_threshold_voltage

InsideWindow(tick, s) ==
    tick \in s.monitor_window_start
                 ..(s.monitor_window_start + s.monitor_window_duration - 1)

\* C25: with monitoring enabled a cycle ends in FAULT with cause MonitorMiss
\* at cooldown expiry exactly when no sample taken inside the monitor window
\* satisfied the threshold condition.  Sampling starts with no crossing
\* recorded; each sampled tick records a crossing exactly when its sample
\* lies inside the window and satisfies the condition, and a recorded
\* crossing is kept; at expiry the cycle faults with MonitorMiss exactly
\* when monitoring is enabled and nothing was recorded.  With monitoring
\* disabled no crossing is recorded and no cycle ends in MonitorMiss.
C25_MissFaultsCrossingDoesNot ==
    /\ fsm.state \in {"ARMED", "FIRING"} => ~fsm.crossed
    /\ fsm.cause = "MonitorMiss" => fsm.state = "FAULT" /\ fsm.snap.monitor_enable
    /\ fsm.state = "COOLDOWN" =>
           \A in \in FsmInputs :
               in.enable =>
                   LET next == Step(fsm, in, fsmRegs)
                       tick == PulseTicks(fsm.snap) + fsm.ticks
                       seen == \/ fsm.crossed
                               \/ /\ fsm.snap.monitor_enable
                                  /\ InsideWindow(tick, fsm.snap)
                                  /\ Satisfies(in.sample, fsm.snap)
                   IN IF fsm.ticks + 1 < fsm.snap.cooldown_interval
                      THEN next.state = "COOLDOWN" /\ next.crossed = seen
                      ELSE /\ (next.state = "FAULT" /\ next.cause = "MonitorMiss")
                                  <=> (fsm.snap.monitor_enable /\ ~seen)
                           /\ (seen /\ ~in.hw_fault) =>
                                  next.state \in {"IDLE", "ARMED"} /\ ~next.fault
                           /\ ~fsm.snap.monitor_enable => next.cause # "MonitorMiss"

\* one satisfying sample, taken at the last tick of the window, ended the
\* cycle without a fault
C25_Witness ==
    /\ fsmEv = "tick"
    /\ fsmPre.state = "COOLDOWN"
    /\ fsmPre.snap.monitor_enable
    /\ ~fsmPre.crossed
    /\ fsm.crossed
    /\ fsm.state = "IDLE"
    /\ ~fsm.fault

\* C26: the probe reports ready exactly while it is armed and waiting for a
\* trigger: the ready entry of the status equals the armed flag.
C26_ReadyWhileArmed ==
    drvOp.op = "get_status" => (drvStatus.ready <=> drv.armed)

\* C27: a voltage written while the probe is armed takes effect without
\* re-arming.  An accepted set_voltage on an armed driver stores the value
\* and leaves the driver armed, and a trigger uses the voltage and the pulse
\* width stored at the moment of the trigger, that is, the last ones
\* written, whatever they were when the probe was armed.
C27_ArmedVoltageWriteTakesEffect ==
    /\ (drvOp.op = "set_voltage" /\ drvPre.armed /\ drvResult = "ok") =>
           /\ drv.voltage_mv = drvOp.arg
           /\ drv.armed
    /\ (drvOp.op = "trigger" /\ drvResult = "ok") =>
           /\ Len(drv.fired) = Len(drvPre.fired) + 1
           /\ drv.fired[Len(drv.fired)].voltage_mv = drvPre.voltage_mv
           /\ drv.fired[Len(drv.fired)].pulse_width_ns = drvPre.pulse_width_ns
    /\ (drvOp.op \in {"arm", "disarm", "trigger", "get_status"}) =>
           drv.voltage_mv = drvPre.voltage_mv

\* armed at 0 V, then set to 1.65 V and triggered: the trigger used 1.65 V,
\* and a further write on the still armed driver stored 3.3 V
C27_Witness ==
    /\ drvOp.op = "set_voltage"
    /\ drvResult = "ok"
    /\ drvPre.armed
    /\ drv.armed
    /\ Len(drv.fired) = 1
    /\ drv.fired[1].voltage_mv = 1650
    /\ drv.voltage_mv = 3300

\* the ticks on which a snapshot is captured: those that take the controller
\* into ARMED
TakesSnapshot(before, after) == after.state = "ARMED" /\ before.state # "ARMED"

\* C28: after reset the controller is in IDLE with ready_for_updates true,
\* and every enabled tick that captures no snapshot leaves ready_for_updates
\* true, in every state and for every input, a fault_clear pulse outside
\* FAULT included; ready_for_updates is low only in the ARMED state just
\* entered by a capturing tick.
C28_ReadyForUpdatesOutsideCapture ==
    /\ fsmEv = "reset" => fsm.state = "IDLE" /\ fsm.ready_for_updates
    /\ \A in \in FsmInputs :
           LET next == Step(fsm, in, fsmRegs)
           IN (in.enable /\ ~TakesSnapshot(fsm, next)) => next.ready_for_updates
    /\ ~fsm.ready_for_updates => fsm.state = "ARMED" /\ fsm.ticks = 0
    /\ (fsmEv = "tick" /\ fsmPre.state # "FAULT" /\ fsm.fault_clear_prev
          /\ ~fsmPre.fault_clear_prev /\ ~TakesSnapshot(fsmPre, fsm)) =>
           fsm.ready_for_updates

\* a fault_clear pulse received in COOLDOWN, after which the controller is
\* ready for updates
C28_Witness ==
    /\ fsmEv = "tick"
    /\ fsmPre.state = "COOLDOWN"
    /\ ~fsmPre.fault_clear_prev
    /\ fsm.fault_clear_prev
    /\ fsm.state = "COOLDOWN"
    /\ fsm.ready_for_updates

\* C29: in every state the driver reaches by initialize, set_voltage,
\* set_pulse_width, arm, trigger, disarm, shutdown and get_status calls,
\* failed calls included, an armed driver is initialized and an initialized
\* driver's pulse width lies within 10..10000 ns.
C29_ArmedImpliesInitializedWidthInRange ==
    /\ drv.armed => drv.initialized
    /\ drv.initialized => 10 <= drv.pulse_width_ns /\ drv.pulse_width_ns <= 10000

\* an armed driver at the upper width limit whose last call was refused
C29_Witness ==
    /\ drvResult # "ok"
    /\ drv.armed
    /\ drv.initialized
    /\ drv.pulse_width_ns = 10000

\* C30: initialize returns normally; on a driver that is not initialized it
\* sets voltage 0 and pulse width 100 ns and marks it initialized; on an
\* initialized driver it changes neither the voltage, the pulse width, the
\* armed flag nor the last trigger time.
C30_InitializeDefaultsOnlyOnce ==
    drvOp.op = "initialize" =>
        /\ drvResult = "ok"
        /\ drv.initialized
        /\ drv.armed = drvPre.armed
        /\ drv.last_trigger_time = drvPre.last_trigger_time
        /\ IF drvPre.initialized
           THEN /\ drv.voltage_mv = drvPre.voltage_mv
                /\ drv.pulse_width_ns = drvPre.pulse_width_ns
           ELSE /\ drv.voltage_mv = 0
                /\ drv.pulse_width_ns = 100

\* initialize called on an armed, triggered driver at 3.3 V
C30_Witness ==
    /\ drvOp.op = "initialize"
    /\ drvPre.initialized
    /\ drvPre.armed
    /\ drvPre.voltage_mv = 3300
    /\ drvPre.last_trigger_time.set
    /\ drv = drvPre

====
